---- MODULE Spec2Model ----
(***************************************************************************)
(* Model of the scraper worker in src/main.py: the startup registration    *)
(* loop (startup_event), the request handlers (root, add_task) and the     *)
(* task executor with its completion report (process_task).                *)
(*                                                                         *)
(* Every handler is an `async def` without an await, and process_task is a *)
(* plain blocking function, so uvicorn's single event loop runs a handler  *)
(* from its first line to its return before it starts another one.  The    *)
(* model keeps the position of every request inside its handler (pc) and   *)
(* lets a request step only when no other request is inside a handler.     *)
(***************************************************************************)
EXTENDS Integers, FiniteSets, Sequences, TLC

\* ---------------------------------------------------------------- bounds
NumRequests == 2
MaxCap == 1

\* ------------------------------------------------------- program constants
\* range(5) of the registration loop
RegistrationRetries == 5

Requests == 1..NumRequests
TaskIds == {"t1", "t2"}
Urls == {"http://example.com"}
\* the (depth, max_pages) pairs that clients submit
Limits == {<<1, 3>>, <<2, 10>>}

\* TaskState
QUEUED == "queued"
RUNNING == "running"
COMPLETED == "completed"
FAILED == "failed"

\* Python's None in a field that holds a string, and in one that holds a dict
None == "None"
Null == [null |-> TRUE]

\* what the coordinator can answer to a POST
RegisterOutcomes == {"200", "500", "exception"}
HelloOutcomes == {"200", "500", "exception"}
\* /container/complete: HTTP success with a logical-success body, HTTP
\* success with a logical-failure body, a non-success status, or
\* requests.post raising
CompleteOutcomes == {"ok_success", "ok_failure", "http_error", "exception"}

VARIABLES
    MAX_TASKS,                \* int(os.environ.get("MAX_TASKS", "5"))
    tasks,                    \* the dict task_id -> record; DOMAIN tasks are its keys
    active_tasks_count,
    registered_with_manager,
    spc,                      \* position of startup_event
    reg_iter,                 \* iterations of the registration loop begun
    reg_requests,             \* POSTs sent to /worker/register
    reg_failures,             \* of these, how many returned non-200 or raised
    hello_requests,           \* POSTs sent to /container/hello
    hello_failed,             \* some hello POST returned non-200 or raised
    pc,                       \* position of each POST /task request
    req,                      \* the TaskRequest body of each request
    hist,                     \* per request: was the worker full when it arrived, did its work raise
    observed,                 \* active_tasks_count as read by the capacity check
    report,                   \* what each request's process_task sent to /container/complete
    response,                 \* the HTTP answer of each POST /task
    terminate_attempts,       \* self-removal commands issued by the worker
    root_resp                 \* the last answer of GET /

vars == <<MAX_TASKS, tasks, active_tasks_count, registered_with_manager, spc,
          reg_iter, reg_requests, reg_failures, hello_requests, hello_failed,
          pc, req, hist, observed, report, response, terminate_attempts, root_resp>>

startupVars == <<registered_with_manager, spc, reg_iter, reg_requests, reg_failures,
                 hello_requests, hello_failed>>

NoHistory == [full_on_arrival |-> FALSE, raised |-> FALSE]

NoReport == [attempts |-> 0, outcome |-> None, log |-> None,
             status |-> None, result |-> Null, acked |-> FALSE, after_ack |-> 0]

Init ==
    /\ MAX_TASKS \in 0..MaxCap
    /\ tasks = [t \in {} |-> Null]
    /\ active_tasks_count = 0
    /\ registered_with_manager = FALSE
    /\ spc = "loop"
    /\ reg_iter = 0
    /\ reg_requests = 0
    /\ reg_failures = 0
    /\ hello_requests = 0
    /\ hello_failed = FALSE
    /\ pc = [r \in Requests |-> "new"]
    /\ req = [r \in Requests |-> Null]
    /\ hist = [r \in Requests |-> NoHistory]
    /\ observed = [r \in Requests |-> -1]
    /\ report = [r \in Requests |-> NoReport]
    /\ response = [r \in Requests |-> Null]
    /\ terminate_attempts = 0
    /\ root_resp = Null

\* ------------------------------------------------------------ startup_event

\* variant: any response at all counts as a successful registration
StatusOk_anyResponse(o) == o # "exception"

\* response.status_code == 200
StatusOk(o) == o = "200"

\* for _ in range(5): the next iteration, or the end of the loop
LoopHead ==
    /\ spc = "loop"
    /\ IF reg_iter < RegistrationRetries
         THEN /\ reg_iter' = reg_iter + 1
              /\ spc' = "register"
         ELSE /\ reg_iter' = reg_iter
              /\ spc' = "after_loop"
    /\ UNCHANGED <<MAX_TASKS, tasks, active_tasks_count, registered_with_manager,
                   reg_requests, reg_failures, hello_requests, hello_failed, pc, req, hist,
                   observed, report, response, terminate_attempts, root_resp>>

\* requests.post(/worker/register) and the test of its status code
RegisterPost ==
    /\ spc = "register"
    /\ \E o \in RegisterOutcomes :
         /\ reg_requests' = reg_requests + 1
         /\ reg_failures' = reg_failures + (IF o = "200" THEN 0 ELSE 1)
         /\ IF o = "exception"
              THEN /\ spc' = "sleep"
                   /\ UNCHANGED registered_with_manager
              ELSE IF StatusOk(o)
                THEN /\ registered_with_manager' = TRUE
                     /\ spc' = "hello"
                ELSE /\ spc' = "sleep"
                     /\ UNCHANGED registered_with_manager
    /\ UNCHANGED <<MAX_TASKS, tasks, active_tasks_count, reg_iter,
                   hello_requests, hello_failed, pc, req, hist, observed,
                   report, response, terminate_attempts, root_resp>>

\* requests.post(/container/hello) inside the same try block; a raise is
\* caught by the loop's except clause, which falls through to the sleep
HelloPost ==
    /\ spc = "hello"
    /\ \E o \in HelloOutcomes :
         /\ hello_requests' = hello_requests + 1
         /\ hello_failed' = (hello_failed \/ ~StatusOk(o))
         /\ spc' = IF o = "exception" THEN "sleep" ELSE "after_loop"
    /\ UNCHANGED <<MAX_TASKS, tasks, active_tasks_count, registered_with_manager,
                   reg_iter, reg_requests, reg_failures, pc, req, hist, observed,
                   report, response, terminate_attempts, root_resp>>

\* time.sleep(2), then back to the loop head
SleepStep ==
    /\ spc = "sleep"
    /\ spc' = "loop"
    /\ UNCHANGED <<MAX_TASKS, tasks, active_tasks_count, registered_with_manager,
                   reg_iter, reg_requests, reg_failures, hello_requests, hello_failed,
                   pc, req, hist, observed, report, response, terminate_attempts, root_resp>>

\* if not registered_with_manager: log; startup_event returns and the
\* server starts serving
StartupDone ==
    /\ spc = "after_loop"
    /\ spc' = "serving"
    /\ UNCHANGED <<MAX_TASKS, tasks, active_tasks_count, registered_with_manager,
                   reg_iter, reg_requests, reg_failures, hello_requests, hello_failed,
                   pc, req, hist, observed, report, response, terminate_attempts, root_resp>>

\* ---------------------------------------------------------------- event loop

InHandler(r) == pc[r] \notin {"new", "pending", "returned", "rejected"}

\* variant: handlers run on a thread pool and interleave freely
CanRun_threaded(r) == TRUE

\* the handlers never await: a request may step only while no other
\* request is inside a handler
CanRun(r) == \A r2 \in Requests \ {r} : ~InHandler(r2)

Idle == \A r \in Requests : ~InHandler(r)

\* ------------------------------------------------------------------- GET /
\* the dict that root returns
root_response ==
    [status |-> "alive",
     tasks_count |-> Cardinality(DOMAIN tasks),
     active_tasks |-> active_tasks_count,
     registered |-> registered_with_manager]

\* the handler of GET /, with its answer kept in root_resp
root ==
    /\ spc = "serving"
    /\ Idle
    /\ root_resp' = root_response
    /\ UNCHANGED <<MAX_TASKS, tasks, active_tasks_count, pc, req, hist, observed,
                   report, response, terminate_attempts>>
    /\ UNCHANGED startupVars

\* ------------------------------------------------------------- POST /task

\* a client sends POST /task with a TaskRequest body; requests are numbered
\* in the order they arrive
Submit(r) ==
    /\ spc = "serving"
    /\ pc[r] = "new"
    /\ \A r2 \in Requests : r2 < r => pc[r2] # "new"
    /\ \E t \in TaskIds, u \in Urls, l \in Limits :
         req' = [req EXCEPT ![r] = [task_id |-> t, url |-> u, depth |-> l[1], max_pages |-> l[2]]]
    /\ hist' = [hist EXCEPT ![r].full_on_arrival =
                  Cardinality({t \in DOMAIN tasks : tasks[t].status = RUNNING}) >= MAX_TASKS]
    /\ pc' = [pc EXCEPT ![r] = "pending"]
    /\ UNCHANGED <<MAX_TASKS, tasks, active_tasks_count, observed,
                   report, response, terminate_attempts, root_resp>>
    /\ UNCHANGED startupVars

\* if active_tasks_count >= MAX_TASKS
AtCapacity(count, max) == count >= max

\* variant: the task is recorded before the capacity check rejects it
CapacityCheck_storesFirst(r) ==
    /\ spc = "serving"
    /\ pc[r] = "pending"
    /\ CanRun(r)
    /\ observed' = [observed EXCEPT ![r] = active_tasks_count]
    /\ IF AtCapacity(active_tasks_count, MAX_TASKS)
         THEN /\ pc' = [pc EXCEPT ![r] = "rejected"]
              /\ response' = [response EXCEPT ![r] =
                     [code |-> 503, detail |-> "Worker at maximum capacity"]]
              /\ tasks' = [t \in DOMAIN tasks \cup {req[r].task_id} |->
                     IF t = req[r].task_id
                       THEN [status |-> QUEUED, data |-> req[r], result |-> Null,
                             queued_time |-> "set", start_time |-> None,
                             end_time |-> None, error |-> None]
                       ELSE tasks[t]]
         ELSE /\ pc' = [pc EXCEPT ![r] = "store"]
              /\ UNCHANGED <<response, tasks>>
    /\ UNCHANGED <<MAX_TASKS, active_tasks_count, req, hist,
                   report, terminate_attempts, root_resp>>
    /\ UNCHANGED startupVars

\* the capacity check at the top of add_task
CapacityCheck(r) ==
    /\ spc = "serving"
    /\ pc[r] = "pending"
    /\ CanRun(r)
    /\ observed' = [observed EXCEPT ![r] = active_tasks_count]
    /\ IF AtCapacity(active_tasks_count, MAX_TASKS)
         THEN /\ pc' = [pc EXCEPT ![r] = "rejected"]
              /\ response' = [response EXCEPT ![r] =
                     [code |-> 503, detail |-> "Worker at maximum capacity"]]
         ELSE /\ pc' = [pc EXCEPT ![r] = "store"]
              /\ UNCHANGED response
    /\ UNCHANGED <<MAX_TASKS, tasks, active_tasks_count, req, hist,
                   report, terminate_attempts, root_resp>>
    /\ UNCHANGED startupVars

\* the dict literal stored under tasks[task.task_id]
NewRecord(data) ==
    [status |-> QUEUED, data |-> data, result |-> Null, queued_time |-> "set",
     start_time |-> None, end_time |-> None, error |-> None]

\* tasks[task.task_id] = {...}
StoreTask(r) ==
    /\ pc[r] = "store"
    /\ CanRun(r)
    /\ tasks' = [t \in DOMAIN tasks \cup {req[r].task_id} |->
                   IF t = req[r].task_id THEN NewRecord(req[r]) ELSE tasks[t]]
    /\ pc' = [pc EXCEPT ![r] = "incr"]
    /\ UNCHANGED <<MAX_TASKS, active_tasks_count, req, hist, observed,
                   report, response, terminate_attempts, root_resp>>
    /\ UNCHANGED startupVars

\* variant: the task is handed to the background and add_task goes on to
\* its return without running process_task
IncrActive_background(r) ==
    /\ pc[r] = "incr"
    /\ CanRun(r)
    /\ active_tasks_count' = active_tasks_count + 1
    /\ pc' = [pc EXCEPT ![r] = "decr"]
    /\ UNCHANGED <<MAX_TASKS, tasks, req, hist, observed,
                   report, response, terminate_attempts, root_resp>>
    /\ UNCHANGED startupVars

\* active_tasks_count += 1
IncrActive(r) ==
    /\ pc[r] = "incr"
    /\ CanRun(r)
    /\ active_tasks_count' = active_tasks_count + 1
    /\ pc' = [pc EXCEPT ![r] = "set_running"]
    /\ UNCHANGED <<MAX_TASKS, tasks, req, hist, observed,
                   report, response, terminate_attempts, root_resp>>
    /\ UNCHANGED startupVars

\* variant: the decrement follows process_task without a finally and is
\* reached only when the task completed
DecrActive_successOnly(r) ==
    /\ pc[r] = "decr"
    /\ CanRun(r)
    /\ active_tasks_count' =
           IF tasks[req[r].task_id].status = COMPLETED
             THEN active_tasks_count - 1
             ELSE active_tasks_count
    /\ pc' = [pc EXCEPT ![r] = "return"]
    /\ UNCHANGED <<MAX_TASKS, tasks, req, hist, observed,
                   report, response, terminate_attempts, root_resp>>
    /\ UNCHANGED startupVars

\* finally: active_tasks_count -= 1
DecrActive(r) ==
    /\ pc[r] = "decr"
    /\ CanRun(r)
    /\ active_tasks_count' = active_tasks_count - 1
    /\ pc' = [pc EXCEPT ![r] = "return"]
    /\ UNCHANGED <<MAX_TASKS, tasks, req, hist, observed,
                   report, response, terminate_attempts, root_resp>>
    /\ UNCHANGED startupVars

\* return {"status": "accepted", "task_id": task.task_id}
ReturnAccepted(r) ==
    /\ pc[r] = "return"
    /\ CanRun(r)
    /\ response' = [response EXCEPT ![r] =
           [code |-> 200, status |-> "accepted", task_id |-> req[r].task_id]]
    /\ pc' = [pc EXCEPT ![r] = "returned"]
    /\ UNCHANGED <<MAX_TASKS, tasks, active_tasks_count, req, hist, observed,
                   report, terminate_attempts, root_resp>>
    /\ UNCHANGED startupVars

\* ------------------------------------------------ GET /task/{id}, GET /tasks

\* variant: a read is served while another handler is half-way
ReadCanRun_threaded == TRUE

\* get_task and get_tasks are async defs without an await as well: a read
\* is served only between two handlers
ReadCanRun == \A r \in Requests : ~InHandler(r)

\* the answer of GET /task/{task_id}; the handler changes no state
get_task(task_id) ==
    IF task_id \notin DOMAIN tasks
      THEN [code |-> 404, detail |-> "Task not found"]
      ELSE [code |-> 200, body |-> tasks[task_id]]

\* the answer of GET /tasks
get_tasks == [code |-> 200, body |-> [tasks |-> tasks]]

\* ------------------------------------------------------------ process_task

\* one assignment tasks[task_id][field] = value of process_task, moving the
\* request from one position to the next
SetField(r, from, to, field, value) ==
    /\ pc[r] = from
    /\ CanRun(r)
    /\ tasks' = [tasks EXCEPT ![req[r].task_id] =
                   [tasks[req[r].task_id] EXCEPT ![field] = value]]
    /\ pc' = [pc EXCEPT ![r] = to]
    /\ UNCHANGED <<MAX_TASKS, active_tasks_count, req, hist, observed,
                   report, response, terminate_attempts, root_resp>>
    /\ UNCHANGED startupVars

\* tasks[task_id]["status"] = TaskState.RUNNING
SetRunning(r) == SetField(r, "set_running", "set_start", "status", RUNNING)

\* tasks[task_id]["start_time"] = time.strftime(...)
SetStartTime(r) == SetField(r, "set_start", "work", "start_time", "set")

\* the result dict built from the task's data
MakeResult(data) ==
    [pages_scraped |-> data.max_pages,
     depth_reached |-> data.depth,
     url |-> data.url]

\* the simulated work: it returns, or something in the try block raises
Work(r) ==
    /\ pc[r] = "work"
    /\ CanRun(r)
    /\ \E raises \in BOOLEAN :
         /\ pc' = [pc EXCEPT ![r] = IF raises THEN "exc_status" ELSE "ok_status"]
         /\ hist' = [hist EXCEPT ![r].raised = raises]
    /\ UNCHANGED <<MAX_TASKS, tasks, active_tasks_count, req, observed,
                   report, response, terminate_attempts, root_resp>>
    /\ UNCHANGED startupVars

\* tasks[task_id]["status"] = TaskState.COMPLETED
SetCompleted(r) == SetField(r, "ok_status", "ok_result", "status", COMPLETED)

\* tasks[task_id]["result"] = result
SetResult(r) ==
    SetField(r, "ok_result", "ok_end", "result", MakeResult(tasks[req[r].task_id].data))

\* tasks[task_id]["end_time"] = time.strftime(...)
SetEndTime(r) == SetField(r, "ok_end", "ok_report", "end_time", "set")

\* variant: the except branch records the task as completed
SetFailed_completed(r) == SetField(r, "exc_status", "exc_error", "status", COMPLETED)

\* tasks[task_id]["status"] = TaskState.FAILED
SetFailed(r) == SetField(r, "exc_status", "exc_error", "status", FAILED)

\* tasks[task_id]["error"] = str(e)
SetError(r) == SetField(r, "exc_error", "exc_end", "error", "work function raised")

\* tasks[task_id]["end_time"] = time.strftime(...) of the except branch
SetFailedEndTime(r) == SetField(r, "exc_end", "exc_report", "end_time", "set")

\* HTTP success and a body that says success
Acknowledges(o) == o = "ok_success"

\* the bookkeeping of one POST to /container/complete that got outcome o:
\* logger.info when requests.post returned, logger.error when it raised
Posted(rep, st, res, o) ==
    [attempts |-> rep.attempts + 1,
     outcome |-> o,
     log |-> IF o = "exception" THEN "error" ELSE "info",
     status |-> st,
     result |-> res,
     acked |-> rep.acked \/ Acknowledges(o),
     after_ack |-> rep.after_ack + (IF rep.acked THEN 1 ELSE 0)]

\* variant: the report is re-sent in a loop that neither stops at an
\* acknowledgement nor at five attempts
ReportCompletion_resend(r) ==
    /\ pc[r] = "ok_report"
    /\ CanRun(r)
    /\ \E o \in CompleteOutcomes :
         report' = [report EXCEPT ![r] = Posted(report[r], "success", tasks[req[r].task_id].result, o)]
    /\ pc' = [pc EXCEPT ![r] = IF report[r].attempts < 6 THEN "ok_report" ELSE "decr"]
    /\ UNCHANGED <<MAX_TASKS, tasks, active_tasks_count, req, hist, observed,
                   response, terminate_attempts, root_resp>>
    /\ UNCHANGED startupVars

\* variant: the worker removes itself after the report whatever the answer
ReportCompletion_terminates(r) ==
    /\ pc[r] = "ok_report"
    /\ CanRun(r)
    /\ \E o \in CompleteOutcomes :
         report' = [report EXCEPT ![r] = Posted(report[r], "success", tasks[req[r].task_id].result, o)]
    /\ terminate_attempts' = terminate_attempts + 1
    /\ pc' = [pc EXCEPT ![r] = "decr"]
    /\ UNCHANGED <<MAX_TASKS, tasks, active_tasks_count, req, hist, observed,
                   response, root_resp>>
    /\ UNCHANGED startupVars

\* try: requests.post(/container/complete, status "success") except: log
ReportCompletion(r) ==
    /\ pc[r] = "ok_report"
    /\ CanRun(r)
    /\ \E o \in CompleteOutcomes :
         report' = [report EXCEPT ![r] = Posted(report[r], "success", tasks[req[r].task_id].result, o)]
    /\ pc' = [pc EXCEPT ![r] = "decr"]
    /\ UNCHANGED <<MAX_TASKS, tasks, active_tasks_count, req, hist, observed,
                   response, terminate_attempts, root_resp>>
    /\ UNCHANGED startupVars

\* try: requests.post(/container/complete, status "error") except: log
ReportFailure(r) ==
    /\ pc[r] = "exc_report"
    /\ CanRun(r)
    /\ \E o \in CompleteOutcomes :
         report' = [report EXCEPT ![r] = Posted(report[r], "error", [error |-> tasks[req[r].task_id].error], o)]
    /\ pc' = [pc EXCEPT ![r] = "decr"]
    /\ UNCHANGED <<MAX_TASKS, tasks, active_tasks_count, req, hist, observed,
                   response, terminate_attempts, root_resp>>
    /\ UNCHANGED startupVars

\* ---------------------------------------------------------------- behaviour

\* startup_event, and GET / once the server is up
NextStartup ==
    \/ LoopHead
    \/ RegisterPost
    \/ HelloPost
    \/ SleepStep
    \/ StartupDone
    \/ root

\* POST /task on a worker that has finished its startup; the read-only
\* handlers are the operators root_response, get_task and get_tasks
NextServing ==
    \/ \E r \in Requests : Submit(r)
    \/ \E r \in Requests : CapacityCheck(r)
    \/ \E r \in Requests : StoreTask(r)
    \/ \E r \in Requests : IncrActive(r)
    \/ \E r \in Requests : SetRunning(r)
    \/ \E r \in Requests : SetStartTime(r)
    \/ \E r \in Requests : Work(r)
    \/ \E r \in Requests : SetCompleted(r)
    \/ \E r \in Requests : SetResult(r)
    \/ \E r \in Requests : SetEndTime(r)
    \/ \E r \in Requests : ReportCompletion(r)
    \/ \E r \in Requests : SetFailed(r)
    \/ \E r \in Requests : SetError(r)
    \/ \E r \in Requests : SetFailedEndTime(r)
    \/ \E r \in Requests : ReportFailure(r)
    \/ \E r \in Requests : DecrActive(r)
    \/ \E r \in Requests : ReturnAccepted(r)

Next == NextStartup \/ NextServing

\* the whole worker
Spec == Init /\ [][Next]_vars

\* the worker from process start until it serves, with its liveness endpoint
SpecStartup == Init /\ [][NextStartup]_vars

\* Two of the states in which startup_event leaves the worker: registered
\* at the first attempt with the hello delivered, and unregistered after
\* five failed attempts.  The request handlers read none of the startup
\* counters.
InitServing ==
    /\ MAX_TASKS \in 0..MaxCap
    /\ tasks = [t \in {} |-> Null]
    /\ active_tasks_count = 0
    /\ spc = "serving"
    /\ \/ /\ registered_with_manager = TRUE
          /\ reg_iter = 1
          /\ reg_requests = 1
          /\ reg_failures = 0
          /\ hello_requests = 1
       \/ /\ registered_with_manager = FALSE
          /\ reg_iter = RegistrationRetries
          /\ reg_requests = RegistrationRetries
          /\ reg_failures = RegistrationRetries
          /\ hello_requests = 0
    /\ hello_failed = FALSE
    /\ pc = [r \in Requests |-> "new"]
    /\ req = [r \in Requests |-> Null]
    /\ hist = [r \in Requests |-> NoHistory]
    /\ observed = [r \in Requests |-> -1]
    /\ report = [r \in Requests |-> NoReport]
    /\ response = [r \in Requests |-> Null]
    /\ terminate_attempts = 0
    /\ root_resp = Null

\* the worker from the end of startup_event on
SpecServing == InitServing /\ [][NextServing]_vars

TypeOK ==
    /\ MAX_TASKS \in 0..MaxCap
    /\ active_tasks_count \in 0..NumRequests
    /\ registered_with_manager \in BOOLEAN
    /\ reg_iter \in 0..RegistrationRetries
    /\ terminate_attempts \in Nat

\* what startup_event does by itself ends: the loop test, the sleep and the
\* return.  The two POSTs get no fairness: requests.post is called without
\* a timeout and may never return.
FairStartup ==
    SpecStartup /\ WF_vars(LoopHead \/ SleepStep \/ StartupDone)

\* the steps of add_task and process_task for request r that end by
\* themselves: the event loop starts a received request once it is free,
\* and the assignments, the sleep and the return take finite time
LocalStep(r) ==
    \/ CapacityCheck(r) \/ StoreTask(r) \/ IncrActive(r)
    \/ SetRunning(r) \/ SetStartTime(r) \/ Work(r)
    \/ SetCompleted(r) \/ SetResult(r) \/ SetEndTime(r)
    \/ SetFailed(r) \/ SetError(r) \/ SetFailedEndTime(r)
    \/ DecrActive(r) \/ ReturnAccepted(r)

\* the serving worker with the progress its code guarantees.  The POST to
\* /container/complete (ReportCompletion, ReportFailure) gets no fairness:
\* requests.post is called without a timeout, so the coordinator may keep
\* the handler, and with it the event loop, waiting forever.
FairServing == SpecServing /\ \A r \in Requests : WF_vars(LocalStep(r))

\* ------------------------------------------------------------------- claims

RunningTasks == {t \in DOMAIN tasks : tasks[t].status = RUNNING}

\* the request passed the capacity check and has not yet given its slot back
Admitted(r) ==
    pc[r] \in {"store", "incr", "set_running", "set_start", "work",
               "ok_status", "ok_result", "ok_end", "ok_report",
               "exc_status", "exc_error", "exc_end", "exc_report", "decr"}

\* process_task has sent its report and returned
Reported(r) == pc[r] \in {"decr", "return", "returned"}

\* C1: the number of Running tasks never exceeds MAX_TASKS, neither does the
\* number of admitted submissions, and no two submissions are admitted on
\* the same observed value of the counter
C1_AdmissionBounded ==
    /\ Cardinality(RunningTasks) <= MAX_TASKS
    /\ Cardinality({r \in Requests : Admitted(r)}) <= MAX_TASKS
    /\ \A r1, r2 \in Requests :
         (r1 # r2 /\ Admitted(r1) /\ Admitted(r2)) => observed[r1] # observed[r2]

\* a task occupies the only slot while a second submission is waiting
C1_Witness ==
    /\ MAX_TASKS = 1
    /\ \E r1, r2 \in Requests :
         /\ pc[r1] = "work"
         /\ tasks[req[r1].task_id].status = RUNNING
         /\ pc[r2] = "pending"

\* C2: the status stored under a task_id only moves queued -> running ->
\* completed | failed, also when a later submission reuses the task_id
C2_StatusMonotonic ==
    [][\A t \in DOMAIN tasks :
         \/ tasks'[t].status = tasks[t].status
         \/ tasks[t].status = QUEUED /\ tasks'[t].status = RUNNING
         \/ tasks[t].status = RUNNING /\ tasks'[t].status \in {COMPLETED, FAILED}]_vars

\* C3: a report whose attempt failed is tried again until five attempts
\* have been made: reporting ends only acknowledged or after five attempts
C3_RetryUntilBudget ==
    \A r \in Requests :
        (Reported(r) /\ ~report[r].acked) => report[r].attempts = 5

\* C4: at most five requests per completion report, and none after the
\* first acknowledged one
C4_AtMostFiveNoneAfterAck ==
    \A r \in Requests : report[r].attempts <= 5 /\ report[r].after_ack = 0

\* a report was acknowledged at its first request and the handler went on
C4_Witness ==
    \E r \in Requests :
        /\ pc[r] = "returned"
        /\ report[r].acked
        /\ report[r].attempts = 1

\* C5: a report counts as delivered only on HTTP success with a
\* logical-success body; every other outcome is a failed attempt
C5_ConfirmedOnlyOnLogicalSuccess ==
    \A r \in Requests :
        report[r].log = "info" => Acknowledges(report[r].outcome)

\* C6: once the coordinator has acknowledged a completion report the worker
\* attempts self-termination, exactly once
C6_AckThenTerminateOnce ==
    (\E r \in Requests : pc[r] = "returned" /\ report[r].acked)
        => terminate_attempts = 1

\* C7: while no completion report has been acknowledged the worker never
\* attempts self-termination
C7_NoAckNoTermination ==
    (\A r \in Requests : ~report[r].acked) => terminate_attempts = 0

\* a report failed, was not acknowledged, and the worker has answered the
\* submission and is still serving
C7_Witness ==
    /\ spc = "serving"
    /\ \A r \in Requests : ~report[r].acked
    /\ \E r \in Requests :
         /\ pc[r] = "returned"
         /\ report[r].attempts >= 1
         /\ report[r].outcome \in {"ok_failure", "http_error", "exception"}

\* C8: at most five registration requests, and none after the first one
\* that returned success
C8_RegistrationStopsAtSuccess ==
    [][/\ reg_requests' <= 5
       /\ registered_with_manager => reg_requests' = reg_requests]_vars

\* C9: the hello is sent only after a successful registration and at most
\* once
C9_HelloAtMostOnce ==
    /\ hello_requests <= 1
    /\ hello_requests > 0 => registered_with_manager

\* C10: after five failed registration attempts startup still completes:
\* the worker gets to serve, unregistered, and GET / answers alive with
\* registered false
C10_UnregisteredStillServes ==
    /\ [](reg_failures = RegistrationRetries =>
            /\ ~registered_with_manager
            /\ root_resp # Null =>
                 (root_resp.status = "alive" /\ root_resp.registered = FALSE))
    /\ (reg_failures = RegistrationRetries) ~> (spc = "serving")

\* all five attempts failed and GET / has been answered
C10_Witness ==
    /\ spc = "serving"
    /\ reg_failures = RegistrationRetries
    /\ reg_requests = RegistrationRetries
    /\ root_resp # Null

\* C11: a submission that arrives while as many tasks are Running as
\* MAX_TASKS allows is answered with the capacity rejection, and one that
\* arrives while fewer are Running is accepted
C11_FullWorkerRejects ==
    \A r \in Requests :
        response[r] # Null =>
            /\ hist[r].full_on_arrival => response[r].code = 503
            /\ ~hist[r].full_on_arrival => response[r].code = 200

\* the two answers of POST /task
IsAccepted(resp, data) ==
    resp = [code |-> 200, status |-> "accepted", task_id |-> data.task_id]

IsCapacityError(resp) ==
    resp = [code |-> 503, detail |-> "Worker at maximum capacity"]

\* C12: a submission ends as 'accepted' or as the capacity error, never
\* both; the step that rejects changes neither the store nor the counter
\* nor a report, and a rejected submission never has a report
C12_RejectionLeavesNoTrace ==
    [][\A r \in Requests :
         /\ pc'[r] = "returned" => (IsAccepted(response'[r], req'[r]) /\ pc[r] # "rejected")
         /\ pc'[r] = "rejected" =>
              /\ IsCapacityError(response'[r])
              /\ pc[r] \in {"pending", "rejected"}
              /\ report'[r] = NoReport
         /\ (pc[r] = "pending" /\ pc'[r] = "rejected") =>
              /\ tasks' = tasks
              /\ active_tasks_count' = active_tasks_count
              /\ report' = report]_vars

\* a submission has been rejected
C12_Witness ==
    \E r \in Requests :
        /\ pc[r] = "rejected"
        /\ IsCapacityError(response[r])
        /\ req[r].task_id \notin DOMAIN tasks

\* the requests that carry task_id t and have sent a report
ReportersOf(t) ==
    {r \in Requests : pc[r] # "new" /\ req[r].task_id = t /\ report[r].attempts > 0}

\* C13: a report is sent once per task, after the terminal status is
\* stored, as 'success' with the result for a Completed task and as 'error'
\* with the message for a Failed one, and no task_id is reported twice
C13_OneReportPerTaskId ==
    /\ \A r \in Requests :
         /\ report[r].attempts <= 1
         /\ (report[r].attempts = 1 /\ pc[r] \in {"decr", "return"}) =>
              LET rec == tasks[req[r].task_id] IN
              \/ /\ rec.status = COMPLETED
                 /\ report[r].status = "success"
                 /\ report[r].result = rec.result
              \/ /\ rec.status = FAILED
                 /\ report[r].status = "error"
                 /\ report[r].result = [error |-> rec.error]
         /\ Reported(r) => report[r].attempts = 1
    /\ \A t \in TaskIds : Cardinality(ReportersOf(t)) <= 1

\* the record stored under the task_id of request r
RecordOf(r) == tasks[req[r].task_id]

FailureStored(rec) ==
    rec.status = FAILED /\ rec.error # None /\ rec.end_time # None

\* C14: when the work raises, the task is stored as Failed with its error
\* and end time before the report is sent, the report says 'error', its
\* outcome (a raise included) leaves the stored status alone, the counter is
\* given back, and the worker can admit the next submission
C14_FailureCapturedAndReported ==
    \A r \in Requests :
        hist[r].raised =>
            /\ pc[r] \in {"exc_report", "decr", "return"} => FailureStored(RecordOf(r))
            /\ pc[r] \in {"decr", "return", "returned"} =>
                 /\ report[r].attempts = 1
                 /\ report[r].status = "error"
            /\ pc[r] \in {"decr", "return"} =>
                 report[r].result = [error |-> RecordOf(r).error]
            /\ pc[r] = "return" => active_tasks_count = 0
            /\ (pc[r] = "returned" /\ Idle) =>
                 ~AtCapacity(active_tasks_count, MAX_TASKS)

\* a task failed, its report raised, and a later submission is being run
C14_Witness ==
    \E r1, r2 \in Requests :
        /\ hist[r1].raised
        /\ pc[r1] = "returned"
        /\ report[r1].outcome = "exception"
        /\ pc[r2] = "work"
        /\ req[r2].task_id # req[r1].task_id
        /\ RecordOf(r1).status = FAILED

\* request r has its 'accepted' answer and GET /task/{id} can be served and
\* shows its task completed with the limits it submitted (or its work raised)
ShownCompleted(r) ==
    /\ pc[r] = "returned"
    /\ IsAccepted(response[r], req[r])
    /\ ReadCanRun
    /\ get_task(req[r].task_id).code = 200
    /\ \/ hist[r].raised
       \/ LET body == get_task(req[r].task_id).body IN
          /\ body.status = COMPLETED
          /\ body.result.pages_scraped = req[r].max_pages
          /\ body.result.depth_reached = req[r].depth

\* process_task has stored the terminal status of request r's task
TerminalStored(r) ==
    /\ pc[r] \in {"ok_result", "ok_end", "ok_report",
                  "exc_error", "exc_end", "exc_report", "decr", "return"}
    /\ RecordOf(r).status \in {COMPLETED, FAILED}

\* C15: a task submitted to an idle worker with free capacity is answered
\* 'accepted' with its task_id and GET /task/{id} eventually shows it
\* completed with pages_scraped = max_pages and depth_reached = depth (when
\* the work did not raise); every admitted task reaches Completed or Failed
C15_AcceptedTaskCompletes ==
    /\ \A r \in Requests :
         (pc[r] = "pending" /\ Idle /\ ~AtCapacity(active_tasks_count, MAX_TASKS))
             ~> ShownCompleted(r)
    /\ \A r \in Requests :
         (pc[r] = "store") ~> TerminalStored(r)

\* the task_ids of the submissions that passed the capacity check and were stored
AdmittedIds ==
    {req[r].task_id : r \in {r2 \in Requests :
        pc[r2] \notin {"new", "pending", "rejected", "store"}}}

\* C16: an admitted task_id stays in the store and keeps naming the same
\* task, and GET /task/{id} answers not-found exactly for the ids that were
\* never admitted
C16_StoreKeepsOneRecordPerId ==
    [][/\ \A t \in DOMAIN tasks :
            /\ t \in DOMAIN tasks'
            /\ tasks'[t].data = tasks[t].data
       /\ \A t \in TaskIds : (get_task(t).code = 404) <=> (t \notin AdmittedIds)]_vars

\* a record as a reader may see it
Consistent(rec) ==
    /\ rec.status = COMPLETED => (rec.result # Null /\ rec.end_time # None)
    /\ rec.status = FAILED => (rec.error # None /\ rec.end_time # None)
    /\ rec.status = RUNNING => rec.start_time # None

\* C17: whenever GET /task/{id} or GET /tasks can be served, every record
\* they return is complete for its status
C17_NoTornRead ==
    ReadCanRun =>
        \A t \in DOMAIN tasks :
            /\ Consistent(get_task(t).body)
            /\ Consistent(get_tasks.body.tasks[t])

\* a read can be served while the store holds a completed and a failed task
C17_Witness ==
    /\ ReadCanRun
    /\ \E t1, t2 \in DOMAIN tasks :
         /\ get_task(t1).body.status = COMPLETED
         /\ get_tasks.body.tasks[t2].status = FAILED

\* the submissions that have incremented the counter and not yet decremented it
Counted(r) ==
    pc[r] \in {"set_running", "set_start", "work",
               "ok_status", "ok_result", "ok_end", "ok_report",
               "exc_status", "exc_error", "exc_end", "exc_report", "decr"}

\* C18: active_tasks_count is never negative, is at least the number of
\* Running tasks, counts exactly the submissions between their increment and
\* their decrement, and is 0 when no add_task is in progress
C18_CounterBalanced ==
    /\ active_tasks_count >= 0
    /\ active_tasks_count >= Cardinality(RunningTasks)
    /\ active_tasks_count = Cardinality({r \in Requests : Counted(r)})
    /\ Idle => (active_tasks_count = 0 /\ root_response.active_tasks = 0)

\* one submission completed, another failed, and GET / can be answered
C18_Witness ==
    /\ Idle
    /\ root_response.tasks_count = 2
    /\ \E r1, r2 \in Requests :
         /\ pc[r1] = "returned" /\ ~hist[r1].raised
         /\ pc[r2] = "returned" /\ hist[r2].raised

\* C19: when add_task is about to return 'accepted' the task is Completed or
\* Failed and its report has been attempted, and only a submission that got
\* there has the 'accepted' answer
C19_AcceptedAfterTerminal ==
    \A r \in Requests :
        /\ pc[r] = "return" =>
             /\ RecordOf(r).status \in {COMPLETED, FAILED}
             /\ report[r].attempts >= 1
        /\ (response[r] # Null /\ response[r].code = 200) => pc[r] = "returned"

\* add_task is at its return statement
C19_Witness ==
    \E r \in Requests :
        /\ pc[r] = "return"
        /\ RecordOf(r).status = COMPLETED
        /\ response[r] = Null

====
